---- MODULE Spec2Model ----
(***************************************************************************)
(* A model of the WUVision before/after crop scripts:                      *)
(*   crop_images.py         (random-crop sampler)                          *)
(*   get_all_valid_tiles.py (exhaustive tiler)                             *)
(*   process_disasters.py   (orchestrator over a worker pool)              *)
(*                                                                         *)
(* File names are sequences of one-character strings, so that the regular  *)
(* expression, str.split, int() and the f-string formatting are modelled   *)
(* by what they do to the characters.                                      *)
(***************************************************************************)
EXTENDS Integers, Sequences, FiniteSets, TLC

VARIABLES
    files,          \* os.listdir(base_path) of a location folder, in listing order
    pairs,          \* the call of get_image_pairs: [state, val], val the list returned
    entries,        \* os.listdir(output_base) with os.path.isdir of each entry
    next_number,    \* the call of get_next_pair_number: [state, val], val the number returned
    box_args,       \* [state, size, res]: the raster size and crop size a box is drawn for
    box_ret,        \* [bbox, box]: get_random_bounding_box's and bbox_to_yx_np's results
    crop_image,     \* the raster is_valid_crop is called on
    verdict,        \* the call of is_valid_crop: [state, bbox, threshold, val]
    before_img,     \* the earliest capture of the location, as opened by Image.open
    after_img,      \* the latest capture of the location
    crop_size,      \* args.size
    draws,          \* the boxes the draws of random.randint give an attempt on this pair
    output_base,    \* cropped_images/<disaster>/<location>: pair directory -> its files
    proc,           \* the invocations of crop_image_pair / process_image_pair
    disasters,      \* args.disasters of process_disasters.py, <<>> when not given
    locations,      \* get_locations_for_disaster: disaster -> its location folders
    max_workers,    \* the size of the worker pool
    all_location_tasks, \* the units handed to pool.map
    pool,           \* [unit, failed, chunk, worker]: how far the pool is with each
    results,        \* what pool.map returned
    main            \* [pc, successful_locations, disaster_results] of main

PairsVars == <<files, pairs>>
AllocVars == <<entries, next_number>>
BoxVars == <<box_args, box_ret>>
ValidVars == <<crop_image, verdict>>
CropVars == <<before_img, after_img, crop_size, draws, output_base, proc>>
OrchVars == <<disasters, locations, max_workers, all_location_tasks, pool, results, main>>
vars ==
    <<files, pairs, entries, next_number, box_args, box_ret, crop_image, verdict,
      before_img, after_img, crop_size, draws, output_base, proc,
      disasters, locations, max_workers, all_location_tasks, pool, results, main>>

\* Each specification below drives one group of variables; the others stay idle.
PairsIdle == files = <<>> /\ pairs = [state |-> "idle", val |-> <<>>]
AllocIdle == entries = {} /\ next_number = [state |-> "idle", val |-> 0]
BoxIdle ==
    /\ box_args = [state |-> "idle", size |-> <<1, 1>>, res |-> <<1, 1>>]
    /\ box_ret = [bbox |-> <<>>, box |-> <<>>]
ValidIdle ==
    /\ crop_image = [width |-> 0, height |-> 0, px |-> <<>>]
    /\ verdict = [state |-> "idle", bbox |-> <<>>, threshold |-> <<>>, val |-> FALSE]

CropIdle ==
    /\ before_img = [width |-> 0, height |-> 0, px |-> <<>>]
    /\ after_img = [width |-> 0, height |-> 0, px |-> <<>>]
    /\ crop_size = 0
    /\ draws = {}
    /\ output_base = <<>>
    /\ proc = <<>>

OrchIdle ==
    /\ disasters = <<>>
    /\ locations = <<>>
    /\ max_workers = 0
    /\ all_location_tasks = <<>>
    /\ pool = <<>>
    /\ results = <<>>
    /\ main = <<>>

NotPairs == <<AllocVars, BoxVars, ValidVars, CropVars, OrchVars>>
NotAlloc == <<PairsVars, BoxVars, ValidVars, CropVars, OrchVars>>
NotBox == <<PairsVars, AllocVars, ValidVars, CropVars, OrchVars>>
NotValid == <<PairsVars, AllocVars, BoxVars, CropVars, OrchVars>>
NotCrop == <<PairsVars, AllocVars, BoxVars, ValidVars, OrchVars>>
NotOrch == <<PairsVars, AllocVars, BoxVars, ValidVars, CropVars>>
NotPairsIdle == AllocIdle /\ BoxIdle /\ ValidIdle /\ CropIdle /\ OrchIdle
NotAllocIdle == PairsIdle /\ BoxIdle /\ ValidIdle /\ CropIdle /\ OrchIdle
NotBoxIdle == PairsIdle /\ AllocIdle /\ ValidIdle /\ CropIdle /\ OrchIdle
NotValidIdle == PairsIdle /\ AllocIdle /\ BoxIdle /\ CropIdle /\ OrchIdle
NotCropIdle == PairsIdle /\ AllocIdle /\ BoxIdle /\ ValidIdle /\ OrchIdle
NotOrchIdle == PairsIdle /\ AllocIdle /\ BoxIdle /\ ValidIdle /\ CropIdle

None == "None"

(***************************************************************************)
(* Characters                                                              *)
(***************************************************************************)
Digits == <<"0", "1", "2", "3", "4", "5", "6", "7", "8", "9">>

\* \d of the re module, on the characters the model uses
IsDigit(c) == \E i \in 1..10 : Digits[i] = c

\* int() of one decimal digit
DigitVal(c) == (CHOOSE i \in 1..10 : Digits[i] = c) - 1

\* code point order of the characters a date string is made of ('-' < '0' < ... < '9')
Ord(c) == IF IsDigit(c) THEN 48 + DigitVal(c) ELSE 45

\* Python's < on two strings: the first differing character decides, a proper prefix is smaller
RECURSIVE StrLess(_, _)
StrLess(s, t) ==
    IF t = <<>> THEN FALSE
    ELSE IF s = <<>> THEN TRUE
    ELSE IF Head(s) # Head(t) THEN Ord(Head(s)) < Ord(Head(t))
    ELSE StrLess(Tail(s), Tail(t))

(***************************************************************************)
(* get_image_pairs (identical in crop_images.py and get_all_valid_tiles.py)*)
(***************************************************************************)
\* re.match(r'(\d{4}-\d{2}-\d{2})_(.+)', file): anchored at the start, and (.+) needs
\* at least one character that is not a newline
DateMatch(file) ==
    /\ Len(file) >= 12
    /\ \A i \in {1, 2, 3, 4, 6, 7, 9, 10} : IsDigit(file[i])
    /\ file[5] = "-"
    /\ file[8] = "-"
    /\ file[11] = "_"
    /\ file[12] # "\n"

\* match.groups()[0]
DateStr(file) == SubSeq(file, 1, 10)

\* the loop that builds dated_files, in listing order
RECURSIVE DatedFiles(_)
DatedFiles(fs) ==
    IF fs = <<>> THEN <<>>
    ELSE IF DateMatch(Head(fs))
         THEN <<<<DateStr(Head(fs)), Head(fs)>>>> \o DatedFiles(Tail(fs))
         ELSE DatedFiles(Tail(fs))

\* list.sort(key=lambda x: x[0]) is stable: an element goes after every element whose
\* key is not greater
RECURSIVE InsertByDate(_, _)
InsertByDate(e, sorted) ==
    IF sorted = <<>> THEN <<e>>
    ELSE IF StrLess(e[1], Head(sorted)[1]) THEN <<e>> \o sorted
    ELSE <<Head(sorted)>> \o InsertByDate(e, Tail(sorted))

RECURSIVE SortByDate(_)
SortByDate(dated) ==
    IF dated = <<>> THEN <<>>
    ELSE InsertByDate(dated[Len(dated)], SortByDate(SubSeq(dated, 1, Len(dated) - 1)))

\* a plausible slip: the second entry instead of the last one
SelectPairSecond(dated_files) ==
    IF Len(dated_files) >= 2
    THEN <<<<dated_files[1][2], dated_files[2][2]>>>>
    ELSE <<>>

\* lines 76-82: (dated_files[0][1], dated_files[-1][1]) when there are two or more.
\* The common prefix os.path.join(base_path, ...) is left out of both components.
SelectPair(dated_files) ==
    IF Len(dated_files) >= 2
    THEN <<<<dated_files[1][2], dated_files[Len(dated_files)][2]>>>>
    ELSE <<>>

get_image_pairs(listing) == SelectPair(SortByDate(DatedFiles(listing)))

(***************************************************************************)
(* Location folders the pair locator is run on                             *)
(***************************************************************************)
MaxFiles == 4

F_2020_01_01_a == <<"2","0","2","0","-","0","1","-","0","1","_","a">>
F_2020_06_15_b == <<"2","0","2","0","-","0","6","-","1","5","_","b">>
F_2019_12_31_c == <<"2","0","1","9","-","1","2","-","3","1","_","c">>
F_2020_06_15_d == <<"2","0","2","0","-","0","6","-","1","5","_","d">>
F_2020_10_02_e == <<"2","0","2","0","-","1","0","-","0","2","_","e">>
F_NoRest       == <<"2","0","2","1","-","0","1","-","0","1","_">>
F_NotAtStart   == <<"x","2","0","1","8","-","0","1","-","0","1","_","a">>
F_ShortMonth   == <<"2","0","1","8","-","1","-","0","1","_","a","b","c">>
F_NoUnderscore == <<"2","0","2","2","-","0","1","-","0","1","-","a">>

FileNames ==
    { F_2020_01_01_a, F_2020_06_15_b, F_2019_12_31_c, F_2020_06_15_d, F_2020_10_02_e,
      F_NoRest, F_NotAtStart, F_ShortMonth, F_NoUnderscore }

\* directory listings: distinct names in any order
Listings ==
    { l \in UNION { [1..n -> FileNames] : n \in 0..MaxFiles } :
        \A i, j \in DOMAIN l : i # j => l[i] # l[j] }

InitPairs ==
    /\ files \in Listings
    /\ pairs = [state |-> "pending", val |-> <<>>]
    /\ NotPairsIdle

GetImagePairs ==
    /\ pairs.state = "pending"
    /\ pairs' = [state |-> "returned", val |-> get_image_pairs(files)]
    /\ UNCHANGED <<files, NotPairs>>

NextPairs == GetImagePairs

SpecPairs == InitPairs /\ [][NextPairs]_vars

(***************************************************************************)
(* C1                                                                      *)
(***************************************************************************)
\* the calendar date of a matching name as a number, read independently of the sort
Num2(s, i) == 10 * DigitVal(s[i]) + DigitVal(s[i + 1])
DateNum(file) ==
    (100 * Num2(file, 1) + Num2(file, 3)) * 10000 + Num2(file, 6) * 100 + Num2(file, 9)

Matching(listing) == { listing[i] : i \in { j \in DOMAIN listing : DateMatch(listing[j]) } }

\* C1: get_image_pairs returns exactly one pair, before carrying the minimum date and
\* after the maximum date among the names matching YYYY-MM-DD_<rest>, when at least two
\* names match; no pair when fewer than two match; names without the prefix have no
\* influence (the result is that of the listing with them removed).
C1_PairIsMinMax ==
    pairs.state = "returned" =>
        LET M == Matching(files)
            got == pairs.val
        IN  /\ Cardinality(M) < 2 => got = <<>>
            /\ Cardinality(M) >= 2 =>
                  /\ Len(got) = 1
                  /\ got[1][1] \in M
                  /\ got[1][2] \in M
                  /\ \A f \in M : DateNum(got[1][1]) <= DateNum(f)
                  /\ \A f \in M : DateNum(f) <= DateNum(got[1][2])
            /\ got = get_image_pairs(SelectSeq(files, DateMatch))

\* three matching names with distinct dates and a non-matching one, pair returned
C1_Witness ==
    /\ pairs.state = "returned"
    /\ Len(pairs.val) = 1
    /\ Cardinality(Matching(files)) = 3
    /\ Len(files) = 4
    /\ DateNum(pairs.val[1][1]) < DateNum(pairs.val[1][2])

(***************************************************************************)
(* get_next_pair_number (crop_images.py)                                   *)
(***************************************************************************)
\* str(n) of a natural number, as the f-string f'pair_{n}' formats it
RECURSIVE StrOfNat(_)
StrOfNat(n) == IF n < 10 THEN <<Digits[n + 1]>> ELSE StrOfNat(n \div 10) \o <<Digits[(n % 10) + 1]>>

PairPrefix == <<"p", "a", "i", "r", "_">>

\* f'pair_{pair_number}'
PairName(n) == PairPrefix \o StrOfNat(n)

\* d.startswith('pair_')
StartsWithPair(d) == Len(d) >= Len(PairPrefix) /\ SubSeq(d, 1, Len(PairPrefix)) = PairPrefix

\* d.split('_'): the fields between underscores
RECURSIVE SplitUnderscore(_, _)
SplitUnderscore(d, field) ==
    IF d = <<>> THEN <<field>>
    ELSE IF Head(d) = "_" THEN <<field>> \o SplitUnderscore(Tail(d), <<>>)
    ELSE SplitUnderscore(Tail(d), Append(field, Head(d)))

\* int(s) of a string of decimal digits; anything else the model feeds it raises
RECURSIVE IntOfDigits(_, _)
IntOfDigits(s, acc) ==
    IF s = <<>> THEN acc ELSE IntOfDigits(Tail(s), 10 * acc + DigitVal(Head(s)))

\* whether int(s) returns; otherwise it raises ValueError
IntOk(s) == s # <<>> /\ \A i \in DOMAIN s : IsDigit(s[i])

IntOf(s) == IntOfDigits(s, 0)

MaxOfSet(S) == CHOOSE m \in S : \A k \in S : k <= m

\* a plausible slip: the os.path.isdir test left out
ExistingPairsNoIsdir(listing) == { e.name : e \in { x \in listing : StartsWithPair(x.name) } }

\* line 88: [d for d in os.listdir(output_base) if d.startswith('pair_') and isdir(d)]
ExistingPairs(listing) ==
    { e.name : e \in { x \in listing : StartsWithPair(x.name) /\ x.isdir } }

\* lines 89-92
\* [state |-> "returned", val |-> N], or state "raised" when an int() raises ValueError
get_next_pair_number(listing) ==
    LET existing_pairs == ExistingPairs(listing)
        suffixes == { SplitUnderscore(d, <<>>)[2] : d \in existing_pairs }
    IN  IF existing_pairs = {} THEN [state |-> "returned", val |-> 1]
        ELSE IF \E x \in suffixes : ~IntOk(x) THEN [state |-> "raised", val |-> 0]
        ELSE [state |-> "returned", val |-> MaxOfSet({ IntOf(x) : x \in suffixes }) + 1]

(***************************************************************************)
(* Output directories the allocator is run on                              *)
(***************************************************************************)
MaxSlotNum == 11
MaxEntries == 3

\* pair_<N> directories, pair_<N> plain files with larger numbers, and other directories
PairDirs == { [name |-> PairName(n), isdir |-> TRUE] : n \in 0..MaxSlotNum }
PairFiles == { [name |-> PairName(MaxSlotNum + k), isdir |-> FALSE] : k \in {1, 9} }
OtherDirs ==
    { [name |-> <<"p", "a", "i", "r", "s">>, isdir |-> TRUE],
      [name |-> <<"x">> \o PairName(MaxSlotNum + 2), isdir |-> TRUE],
      [name |-> <<"t", "m", "p", "_">> \o StrOfNat(MaxSlotNum + 3), isdir |-> TRUE] }

OutputListings ==
    { l \in SUBSET (PairDirs \cup PairFiles \cup OtherDirs) : Cardinality(l) <= MaxEntries }

InitAlloc ==
    /\ entries \in OutputListings
    /\ next_number = [state |-> "pending", val |-> 0]
    /\ NotAllocIdle

GetNextPairNumber ==
    /\ next_number.state = "pending"
    /\ next_number' = get_next_pair_number(entries)
    /\ UNCHANGED <<entries, NotAlloc>>

NextAlloc == GetNextPairNumber

SpecAlloc == InitAlloc /\ [][NextAlloc]_vars

(***************************************************************************)
(* C4                                                                      *)
(***************************************************************************)
\* the numbers N of the pair_<N> subdirectories, read off the listing by formatting N
SlotNumbers(listing) ==
    { n \in 0..(2 * MaxSlotNum + 10) : [name |-> PairName(n), isdir |-> TRUE] \in listing }

\* C4: get_next_pair_number returns 1 when there is no pair_<N> subdirectory and otherwise
\* one more than the largest N; plain files and names not starting with pair_ are ignored.
C4_NextIsMaxPlusOne ==
    next_number.state \notin {"pending", "idle"} =>
        /\ next_number.state = "returned"
        /\ next_number.val = IF SlotNumbers(entries) = {} THEN 1
                              ELSE MaxOfSet(SlotNumbers(entries)) + 1

\* pair_3 and pair_7 beside a plain file named pair_<larger N> give 8
C4_Witness ==
    /\ next_number = [state |-> "returned", val |-> 8]
    /\ SlotNumbers(entries) = {3, 7}
    /\ \E e \in entries : ~e.isdir /\ StartsWithPair(e.name)

(***************************************************************************)
(* Python floats (IEEE 754 binary64, round to nearest, ties to even)       *)
(*                                                                         *)
(* A positive float is [m, e]: m the 53 significand bits, most significant *)
(* first and m[1] = 1, standing for the integer m * 2^e.  Zero is the      *)
(* empty significand.  Only the operations of get_random_bounding_box and  *)
(* bbox_to_yx_np are modelled: int / int, float * int and int(float).      *)
(***************************************************************************)
SignificandBits == 53

FloatZero == [m |-> <<>>, e |-> 0]

RECURSIVE BitsToNat(_, _)
BitsToNat(bits, acc) ==
    IF bits = <<>> THEN acc ELSE BitsToNat(Tail(bits), 2 * acc + Head(bits))

RECURSIVE NatToBits(_)
NatToBits(n) == IF n = 0 THEN <<>> ELSE NatToBits(n \div 2) \o <<n % 2>>

\* bits + 1, most significant bit first; all ones become a one followed by zeros
RECURSIVE IncBits(_)
IncBits(bits) ==
    IF bits = <<>> THEN <<1>>
    ELSE LET n == Len(bits) IN
         IF bits[n] = 0 THEN SubSeq(bits, 1, n - 1) \o <<1>>
         ELSE IncBits(SubSeq(bits, 1, n - 1)) \o <<0>>

\* round an exact significand (kept bits, a guard bit, a sticky flag) to nearest, ties to even
RoundBits(kept, guard, sticky, e) ==
    IF guard = 1 /\ (sticky \/ kept[Len(kept)] = 1)
    THEN LET up == IncBits(kept) IN
         IF Len(up) > Len(kept)
         THEN [m |-> SubSeq(up, 1, Len(kept)), e |-> e + 1]
         ELSE [m |-> up, e |-> e]
    ELSE [m |-> kept, e |-> e]

\* the scaling of a / b into [1, 2): double a while a < b, then double b while a >= 2b
RECURSIVE ScaleUp(_, _, _)
ScaleUp(a, b, e) == IF a < b THEN ScaleUp(2 * a, b, e - 1) ELSE <<a, e>>

RECURSIVE ScaleDown(_, _, _)
ScaleDown(a, b, e) == IF a >= 2 * b THEN ScaleDown(a, 2 * b, e + 1) ELSE <<b, e>>

\* long division: n more quotient bits of r / b, r < 2b; returns <<bits, remainder doubled>>
RECURSIVE DivBits(_, _, _, _)
DivBits(r, b, n, acc) ==
    IF n = 0 THEN <<acc, r>>
    ELSE IF r >= b THEN DivBits(2 * (r - b), b, n - 1, Append(acc, 1))
    ELSE DivBits(2 * r, b, n - 1, Append(acc, 0))

\* x / w of two ints, x >= 0 and w >= 1 (true division)
FloatDiv(x, w) ==
    IF x = 0 THEN FloatZero
    ELSE LET up == ScaleUp(x, w, 0)
             dn == ScaleDown(up[1], w, up[2])
             q  == DivBits(up[1], dn[1], SignificandBits, <<>>)
             r  == q[2]
         IN  RoundBits(q[1], IF r >= dn[1] THEN 1 ELSE 0, r > dn[1],
                       dn[2] - (SignificandBits - 1))

\* bits * w exactly, most significant bit first
RECURSIVE MulBits(_, _, _)
MulBits(bits, w, carry) ==
    IF bits = <<>> THEN NatToBits(carry)
    ELSE LET n == Len(bits)
             t == bits[n] * w + carry
         IN  IF t % 2 = 1 THEN MulBits(SubSeq(bits, 1, n - 1), w, t \div 2) \o <<1>>
             ELSE MulBits(SubSeq(bits, 1, n - 1), w, t \div 2) \o <<0>>

\* f * w of a float and an int w >= 1
FloatMul(f, w) ==
    IF f.m = <<>> THEN FloatZero
    ELSE LET p == MulBits(f.m, w, 0)
             k == Len(p) - SignificandBits
         IN  IF k = 0 THEN [m |-> p, e |-> f.e]
             ELSE RoundBits(SubSeq(p, 1, SignificandBits), p[SignificandBits + 1],
                            \E i \in (SignificandBits + 2)..Len(p) : p[i] = 1,
                            f.e + k)

\* int(f): truncation toward zero, for 0 <= f < 2^53
FloatToInt(f) ==
    IF f.m = <<>> \/ SignificandBits + f.e <= 0 THEN 0
    ELSE BitsToNat(SubSeq(f.m, 1, SignificandBits + f.e), 0)

(***************************************************************************)
(* get_random_bounding_box and bbox_to_yx_np (crop_images.py)              *)
(***************************************************************************)
Max(a, b) == IF a >= b THEN a ELSE b

\* the values random.randint(0, max(0, limit)) can return
RandInt0(limit) == 0..Max(0, limit)

\* lines 23-35 for the draws x and y: (minx, maxx, miny, maxy) as floats
BoundingBoxAt(size, res, x, y) ==
    LET height == size[1]
        width == size[2]
        res_height == res[1]
        res_width == res[2]
    IN  << FloatDiv(x, width), FloatDiv(x + res_width, width),
           FloatDiv(y, height), FloatDiv(y + res_height, height) >>

\* every tuple get_random_bounding_box(size, res) can return
get_random_bounding_box(size, res) ==
    { BoundingBoxAt(size, res, x, y) :
        x \in RandInt0(size[2] - res[2]), y \in RandInt0(size[1] - res[1]) }

\* lines 48-55: (top, left, bottom, right)
bbox_to_yx_np(bbox, size) ==
    LET height == size[1]
        width == size[2]
        minx == bbox[1]
        maxx == bbox[2]
        miny == bbox[3]
        maxy == bbox[4]
    IN  << FloatToInt(FloatMul(miny, height)), FloatToInt(FloatMul(minx, width)),
           FloatToInt(FloatMul(maxy, height)), FloatToInt(FloatMul(maxx, width)) >>

\* lines 132-133 and the reordering of line 136: every (left, top, right, bottom) one
\* attempt of crop_image_pair can evaluate on a width x height raster
SamplerBoxes(width, height, side) ==
    { LET t == bbox_to_yx_np(bbox, <<height, width>>) IN <<t[2], t[1], t[4], t[3]>> :
        bbox \in get_random_bounding_box(<<height, width>>, <<side, side>>) }

(***************************************************************************)
(* Rasters and crop sizes a box is drawn for                               *)
(***************************************************************************)
MaxBoxWidth == 23
MaxBoxHeight == 2
MaxBoxCrop == 3

InitBox ==
    /\ \E width \in 1..MaxBoxWidth, height \in 1..MaxBoxHeight, side \in 1..MaxBoxCrop :
          box_args = [state |-> "start", size |-> <<height, width>>,
                      res |-> <<side, side>>]
    /\ box_ret = [bbox |-> <<>>, box |-> <<>>]
    /\ NotBoxIdle

GetRandomBoundingBox ==
    /\ box_args.state = "start"
    /\ \E bbox \in get_random_bounding_box(box_args.size, box_args.res) :
          box_ret' = [box_ret EXCEPT !.bbox = bbox]
    /\ box_args' = [box_args EXCEPT !.state = "drawn"]
    /\ UNCHANGED NotBox

BboxToYxNp ==
    /\ box_args.state = "drawn"
    /\ box_ret' = [box_ret EXCEPT !.box = bbox_to_yx_np(box_ret.bbox, box_args.size)]
    /\ box_args' = [box_args EXCEPT !.state = "converted"]
    /\ UNCHANGED NotBox

NextBox == GetRandomBoundingBox \/ BboxToYxNp

SpecBox == InitBox /\ [][NextBox]_vars

(***************************************************************************)
(* C6                                                                      *)
(***************************************************************************)
\* C6: every box crop_image_pair evaluates satisfies 0 <= left, 0 <= top, right <= width,
\* bottom <= height and right - left = bottom - top = crop_size, for any raster and crop
\* size, rasters smaller than the crop size included.
C6_BoxInsideRaster ==
    box_args.state = "converted" =>
        LET top == box_ret.box[1]
            left == box_ret.box[2]
            bottom == box_ret.box[3]
            right == box_ret.box[4]
            height == box_args.size[1]
            width == box_args.size[2]
            side == box_args.res[1]
        IN  /\ 0 <= left
            /\ 0 <= top
            /\ right <= width
            /\ bottom <= height
            /\ right - left = side
            /\ bottom - top = side

\* C6 restricted to rasters at least as large as the crop: still violated, by rounding
C6_BoxInsideLargeRaster ==
    (box_args.size[1] >= box_args.res[1] /\ box_args.size[2] >= box_args.res[2])
        => C6_BoxInsideRaster

(***************************************************************************)
(* Rasters and is_valid_crop (both scripts; they differ in the default     *)
(* threshold only)                                                         *)
(*                                                                         *)
(* A raster is [width, height, px]: px[y + 1][x + 1] is the (R, G, B)      *)
(* pixel at column x, row y, channels in 0..255 (download_images.py        *)
(* converts every image to RGB).                                           *)
(***************************************************************************)
FullScale == 255

\* 0.1, 0.01 and 0.9 as exact fractions <<numerator, denominator>>
NonBlackLevel == <<1, 10>>
SamplerThreshold == <<1, 100>>
TilerThreshold == <<9, 10>>

BlackPixel == <<0, 0, 0>>

\* image.crop((left, top, right, bottom)) as np.array(crop) holds it, row by row;
\* PIL fills what lies outside the raster with zeros
RECURSIVE CropRow(_, _, _, _)
CropRow(image, y, x, right) ==
    IF x >= right THEN <<>>
    ELSE << IF x >= 0 /\ x < image.width /\ y >= 0 /\ y < image.height
            THEN image.px[y + 1][x + 1] ELSE BlackPixel >>
         \o CropRow(image, y, x + 1, right)

RECURSIVE CropRows(_, _, _, _, _)
CropRows(image, y, bottom, left, right) ==
    IF y >= bottom THEN <<>>
    ELSE CropRow(image, y, left, right) \o CropRows(image, y + 1, bottom, left, right)

Crop(image, bbox) == CropRows(image, bbox[2], bbox[4], bbox[1], bbox[3])

\* one element of crop_array > 0.1, crop_array the channel value divided by 255
Brighter(v) == v * NonBlackLevel[2] > NonBlackLevel[1] * FullScale

\* torch.sum(crop_array > 0.1): the elements (channel values) above the level
RECURSIVE SumBrighter(_)
SumBrighter(pixels) ==
    IF pixels = <<>> THEN 0
    ELSE Cardinality({ c \in 1..3 : Brighter(Head(pixels)[c]) }) + SumBrighter(Tail(pixels))

\* crop_array.numel(): three elements a pixel
Numel(pixels) == 3 * Len(pixels)

\* (non_black_pixels / total_pixels) > threshold with total_pixels = numel / 3;
\* an empty crop gives 0 / 0 = nan, and nan > threshold is False
RatioAbove(non_black_pixels, numel, threshold) ==
    /\ numel > 0
    /\ 3 * non_black_pixels * threshold[2] > threshold[1] * numel

is_valid_crop(image, bbox, threshold) ==
    LET crop_array == Crop(image, bbox)
    IN  RatioAbove(SumBrighter(crop_array), Numel(crop_array), threshold)

(***************************************************************************)
(* Crops the validity filter is run on: one-row rasters cropped whole      *)
(***************************************************************************)
MaxCropPixels == 10

PixelKinds ==
    << <<0, 0, 0>>, <<25, 25, 25>>, <<26, 0, 0>>, <<255, 255, 0>>, <<255, 255, 255>> >>

\* a row of c[1] pixels of the first kind, then c[2] of the second, ...
RECURSIVE KindRow(_, _)
KindRow(c, k) ==
    IF k > Len(PixelKinds) THEN <<>>
    ELSE [i \in 1..c[k] |-> PixelKinds[k]] \o KindRow(c, k + 1)

\* one row of n pixels for every multiset of kinds
KindRows(n) ==
    { KindRow(c, 1) : c \in { d \in [1..Len(PixelKinds) -> 0..n] :
                                d[1] + d[2] + d[3] + d[4] + d[5] = n } }

InitValid ==
    /\ \E n \in 1..MaxCropPixels : \E r \in KindRows(n) :
          /\ crop_image = [width |-> n, height |-> 1, px |-> <<r>>]
          /\ \E t \in {SamplerThreshold, TilerThreshold} :
                verdict = [state |-> "pending", bbox |-> <<0, 0, n, 1>>,
                           threshold |-> t, val |-> FALSE]
    /\ NotValidIdle

IsValidCrop ==
    /\ verdict.state = "pending"
    /\ verdict' = [verdict EXCEPT
                      !.state = "returned",
                      !.val = is_valid_crop(crop_image, verdict.bbox, verdict.threshold)]
    /\ UNCHANGED <<crop_image, NotValid>>

NextValid == IsValidCrop

SpecValid == InitValid /\ [][NextValid]_vars

(***************************************************************************)
(* C8                                                                      *)
(***************************************************************************)
\* a pixel is non-black when its brightest channel is above 0.1 of full scale
NonBlackPixel(p) == \E c \in 1..3 : 10 * p[c] > FullScale

NonBlackCount(image) ==
    Cardinality({ x \in 1..image.width : NonBlackPixel(image.px[1][x]) })

\* C8: is_valid_crop accepts a crop iff non-black pixels (each counted once) divided by
\* all pixels is strictly greater than the threshold, whatever the RGB content: at 0.9 a
\* crop that is exactly 90% non-black is rejected.
C8_AcceptsIffPixelRatioAbove ==
    verdict.state = "returned" =>
        (verdict.val <=>
            NonBlackCount(crop_image) * verdict.threshold[2]
                > verdict.threshold[1] * crop_image.width)

(***************************************************************************)
(* crop_image_pair (crop_images.py) and process_image_pair                 *)
(* (get_all_valid_tiles.py) as processes on one output directory           *)
(*                                                                         *)
(* Both scripts write under cropped_images/<disaster>/<location>; every    *)
(* invocation is an operating-system process of its own, so invocations on *)
(* the same location interleave at their file-system calls.                *)
(*                                                                         *)
(* output_base maps the name of each pair_<N> directory to the files in    *)
(* it: "before" is before_<before_filename>, "after" is                    *)
(* after_<after_filename>, each mapped to the pixels saved.                *)
(*                                                                         *)
(* One step of crop_image_pair is one attempt or one file-system call; one *)
(* step of process_image_pair is one iteration of its inner loop.          *)
(*                                                                         *)
(* Fields opened, boxes, writes, existing and alone of an invocation record*)
(* what it did (history); the code does not read them.                     *)
(*                                                                         *)
(* draws holds SamplerBoxes of the opened pair: the boxes that             *)
(* get_random_bounding_box and bbox_to_yx_np give over all draws of        *)
(* random.randint.  It is fixed by the raster and the crop size, so it is  *)
(* computed once, when the pair is chosen.                                 *)
(***************************************************************************)
MaxWidth == 3
MaxHeight == 2
MaxCropSize == 2
MaxDark == 1
MaxAttempts == 2

Procs == {1, 2}

Min(a, b) == IF a <= b THEN a ELSE b

WhitePixel == <<255, 255, 255>>

\* a raster whose first `dark` columns are no-data (black)
Raster(width, height, dark) ==
    [width |-> width, height |-> height,
     px |-> [y \in 1..height |-> [x \in 1..width |->
                IF x <= dark THEN BlackPixel ELSE WhitePixel]]]

NotCalled(script) ==
    [script |-> script, pc |-> "idle", opened |-> FALSE, attempts |-> 0, x |-> 0, y |-> 0,
     bbox |-> <<>>, pair_number |-> 0, output_folder |-> <<>>, valid_crops |-> 0,
     ret |-> [state |-> "running", none |-> FALSE, folder |-> <<>>, count |-> 0],
     boxes |-> <<>>, writes |-> <<>>, existing |-> {}, alone |-> FALSE]

\* the location's image pair, the crop size and an empty output directory
InitLocation ==
    /\ \E width \in 1..MaxWidth, height \in 1..MaxHeight :
          /\ \E dark \in 0..Min(width, MaxDark) : before_img = Raster(width, height, dark)
          /\ \E dark \in 0..Min(width, MaxDark) : after_img = Raster(width, height, dark)
    /\ crop_size \in 1..MaxCropSize
    /\ draws = SamplerBoxes(before_img.width, before_img.height, crop_size)
    /\ output_base = <<>>
    /\ NotCropIdle

\* two runs of crop_images.py on the location
InitSampler ==
    /\ InitLocation
    /\ proc = [p \in Procs |-> NotCalled("crop_image_pair")]

\* two runs of get_all_valid_tiles.py on the location
InitTiler ==
    /\ InitLocation
    /\ proc = [p \in Procs |-> NotCalled("process_image_pair")]

\* a single run of crop_images.py on the location
InitOneSampler ==
    /\ InitLocation
    /\ proc = [p \in {1} |-> NotCalled("crop_image_pair")]

\* one run of each script on the location
InitCrop ==
    /\ InitLocation
    /\ proc = [p \in Procs |-> NotCalled(IF p = 1 THEN "crop_image_pair"
                                          ELSE "process_image_pair")]

\* os.listdir(output_base) with os.path.isdir: every entry is a pair directory
Listing(dir) == { [name |-> d, isdir |-> TRUE] : d \in DOMAIN dir }

\* os.makedirs(output_folder, exist_ok=True)
Makedirs(dir, output_folder) ==
    IF output_folder \in DOMAIN dir THEN dir
    ELSE [d \in DOMAIN dir \cup {output_folder} |->
            IF d = output_folder THEN <<>> ELSE dir[d]]

\* crop.save(os.path.join(output_folder, name)): creates or overwrites the file
WriteFile(folder_files, name, data) ==
    [f \in DOMAIN folder_files \cup {name} |-> IF f = name THEN data ELSE folder_files[f]]

Save(dir, output_folder, name, data) ==
    [dir EXCEPT ![output_folder] = WriteFile(dir[output_folder], name, data)]

\* is_valid_crop(before_img, bbox) and is_valid_crop(after_img, bbox)
BothValid(bbox, threshold) ==
    /\ is_valid_crop(before_img, bbox, threshold)
    /\ is_valid_crop(after_img, bbox, threshold)

Returned(p) == proc[p].ret.state = "returned"
InProgress(p) == proc[p].pc # "idle" /\ ~Returned(p)

\* the call of crop_image_pair / process_image_pair from its script's main; runs of
\* the same script are interchangeable and are numbered in the order they are called
Call(p) ==
    /\ proc[p].pc = "idle"
    /\ \A q \in DOMAIN proc : (q < p /\ proc[q].script = proc[p].script) => proc[q].pc # "idle"
    /\ proc' = [proc EXCEPT ![p] = [@ EXCEPT
                  !.pc = "open",
                  !.existing = DOMAIN output_base,
                  !.alone = \A q \in DOMAIN proc \ {p} : ~InProgress(q)]]
    /\ UNCHANGED <<before_img, after_img, crop_size, draws, output_base, NotCrop>>

(***************************************************************************)
(* crop_image_pair                                                         *)
(***************************************************************************)
ReturnNone(r) == [r EXCEPT !.pc = "done", !.ret = [@ EXCEPT !.state = "returned", !.none = TRUE]]

\* line 127: Image.open of both files; a failure is caught at line 156 and returns None
SamplerOpen(p) ==
    /\ proc[p].script = "crop_image_pair" /\ proc[p].pc = "open"
    /\ \E opened \in BOOLEAN :
          proc' = [proc EXCEPT ![p] =
                     IF opened THEN [@ EXCEPT !.pc = "attempt", !.opened = TRUE]
                     ELSE ReturnNone(@)]
    /\ UNCHANGED <<before_img, after_img, crop_size, draws, output_base, NotCrop>>

\* a plausible slip: the loop runs one attempt more
LoopOverLate(attempts) == attempts > MaxAttempts

\* the number of attempts after which the loop of line 130 is over
LoopOver(attempts) == attempts >= MaxAttempts

\* lines 130-138 and 154-155: one iteration of the loop, or its end
SamplerAttempt(p) ==
    /\ proc[p].script = "crop_image_pair" /\ proc[p].pc = "attempt"
    /\ IF LoopOver(proc[p].attempts)
       THEN proc' = [proc EXCEPT ![p] = ReturnNone(@)]
       ELSE \E bbox \in draws :
              proc' = [proc EXCEPT ![p] = [@ EXCEPT
                         !.attempts = @ + 1,
                         !.bbox = bbox,
                         !.boxes = Append(@, bbox),
                         !.pc = IF BothValid(bbox, SamplerThreshold)
                                THEN "scan" ELSE "attempt"]]
    /\ UNCHANGED <<before_img, after_img, crop_size, draws, output_base, NotCrop>>

\* lines 141-142: pair_number = get_next_pair_number(output_base) (no int() can raise
\* here: every directory is a pair_<N> one)
SamplerScan(p) ==
    /\ proc[p].script = "crop_image_pair" /\ proc[p].pc = "scan"
    /\ LET pair_number == get_next_pair_number(Listing(output_base)).val
       IN  proc' = [proc EXCEPT ![p] = [@ EXCEPT
                      !.pair_number = pair_number,
                      !.output_folder = PairName(pair_number),
                      !.pc = "makedirs"]]
    /\ UNCHANGED <<before_img, after_img, crop_size, draws, output_base, NotCrop>>

\* line 143
SamplerMakedirs(p) ==
    /\ proc[p].script = "crop_image_pair" /\ proc[p].pc = "makedirs"
    /\ output_base' = Makedirs(output_base, proc[p].output_folder)
    /\ proc' = [proc EXCEPT ![p].pc = "save_before"]
    /\ UNCHANGED <<before_img, after_img, crop_size, draws, NotCrop>>

\* what one save adds to the history
Written(r, name, data) ==
    Append(r.writes, [folder |-> r.output_folder, file |-> name, bbox |-> r.bbox,
                      data |-> data])

\* line 148, with the crop of line 137
SamplerSaveBefore(p) ==
    /\ proc[p].script = "crop_image_pair" /\ proc[p].pc = "save_before"
    /\ LET before_crop == Crop(before_img, proc[p].bbox)
       IN  /\ output_base' = Save(output_base, proc[p].output_folder, "before", before_crop)
           /\ proc' = [proc EXCEPT ![p] = [@ EXCEPT
                         !.writes = Written(proc[p], "before", before_crop),
                         !.pc = "save_after"]]
    /\ UNCHANGED <<before_img, after_img, crop_size, draws, NotCrop>>

\* lines 149-152, with the crop of line 138
SamplerSaveAfter(p) ==
    /\ proc[p].script = "crop_image_pair" /\ proc[p].pc = "save_after"
    /\ LET after_crop == Crop(after_img, proc[p].bbox)
       IN  /\ output_base' = Save(output_base, proc[p].output_folder, "after", after_crop)
           /\ proc' = [proc EXCEPT ![p] = [@ EXCEPT
                         !.writes = Written(proc[p], "after", after_crop),
                         !.pc = "done",
                         !.ret = [@ EXCEPT !.state = "returned",
                                           !.folder = proc[p].output_folder]]]
    /\ UNCHANGED <<before_img, after_img, crop_size, draws, NotCrop>>

SamplerStep(p) ==
    \/ SamplerOpen(p)
    \/ SamplerAttempt(p)
    \/ SamplerScan(p)
    \/ SamplerMakedirs(p)
    \/ SamplerSaveBefore(p)
    \/ SamplerSaveAfter(p)

(***************************************************************************)
(* process_image_pair                                                      *)
(***************************************************************************)
ReturnCount(r, n) ==
    [r EXCEPT !.pc = "done", !.ret = [@ EXCEPT !.state = "returned", !.count = n]]

\* line 72: Image.open of both files; a failure is caught at line 101 and returns 0
TilerOpen(p) ==
    /\ proc[p].script = "process_image_pair" /\ proc[p].pc = "open"
    /\ \E opened \in BOOLEAN :
          proc' = [proc EXCEPT ![p] =
                     IF opened THEN [@ EXCEPT !.pc = "tile", !.opened = TRUE,
                                              !.x = 0, !.y = 0]
                     ELSE ReturnCount(@, 0)]
    /\ UNCHANGED <<before_img, after_img, crop_size, draws, output_base, NotCrop>>

\* a plausible slip: the stop of the range without the crop size
RangeStopWholeSide(side, size) == side

\* the stop of range(0, side - crop_size + 1, crop_size)
RangeStop(side, size) == side - size + 1

\* a plausible slip: the folders are numbered from 1
TileFolderFromOne(valid_crops) == PairName(valid_crops + 1)

\* line 85: f'pair_{valid_crops}'
TileFolder(valid_crops) == PairName(valid_crops)

\* the loop variables after the step of the inner loop: the next x, or the next row
NextCell(r, width) ==
    IF r.x + crop_size < RangeStop(width, crop_size)
    THEN [r EXCEPT !.x = @ + crop_size]
    ELSE [r EXCEPT !.x = 0, !.y = @ + crop_size]

\* lines 76-100: one iteration of the inner loop (the box, the test, and for a valid box
\* the directory, the two files and the count), or the return after the last row
TilerTile(p) ==
    /\ proc[p].script = "process_image_pair" /\ proc[p].pc = "tile"
    /\ LET r == proc[p]
           bbox == <<r.x, r.y, r.x + crop_size, r.y + crop_size>>
           output_folder == TileFolder(r.valid_crops)
           before_crop == Crop(before_img, bbox)
           after_crop == Crop(after_img, bbox)
           seen == [r EXCEPT !.bbox = bbox, !.boxes = Append(@, bbox)]
           saving == [seen EXCEPT !.output_folder = output_folder]
       IN  IF ~(r.y < RangeStop(before_img.height, crop_size))
              \/ ~(0 < RangeStop(before_img.width, crop_size))
           THEN /\ proc' = [proc EXCEPT ![p] = ReturnCount(r, r.valid_crops)]
                /\ UNCHANGED output_base
           ELSE IF BothValid(bbox, TilerThreshold)
           THEN /\ output_base' =
                      Save(Save(Makedirs(output_base, output_folder),
                                output_folder, "before", before_crop),
                           output_folder, "after", after_crop)
                /\ proc' = [proc EXCEPT ![p] =
                      NextCell([saving EXCEPT
                                  !.writes = Written(
                                      [saving EXCEPT !.writes =
                                          Written(saving, "before", before_crop)],
                                      "after", after_crop),
                                  !.valid_crops = @ + 1],
                               before_img.width)]
           ELSE /\ proc' = [proc EXCEPT ![p] = NextCell(seen, before_img.width)]
                /\ UNCHANGED output_base
    /\ UNCHANGED <<before_img, after_img, crop_size, draws, NotCrop>>

TilerStep(p) ==
    \/ TilerOpen(p)
    \/ TilerTile(p)

NextSampler == \E p \in DOMAIN proc : Call(p) \/ SamplerStep(p)

NextTiler == \E p \in DOMAIN proc : Call(p) \/ TilerStep(p)

NextCrop == \E p \in DOMAIN proc : Call(p) \/ SamplerStep(p) \/ TilerStep(p)

SpecSampler == InitSampler /\ [][NextSampler]_vars

SpecTiler == InitTiler /\ [][NextTiler]_vars

SpecCrop == InitCrop /\ [][NextCrop]_vars

SpecOneSampler == InitOneSampler /\ [][NextSampler]_vars

\* an invocation that was called keeps being scheduled by the operating system
FairSpecOneSampler == SpecOneSampler /\ WF_vars(SamplerStep(1))

(***************************************************************************)
(* C2, C3, C7, C9, C10                                                     *)
(***************************************************************************)
IsSampler(p) == proc[p].script = "crop_image_pair"
IsTiler(p) == proc[p].script = "process_image_pair"

\* N of a pair_<N> directory name
SlotNumber(folder) == IntOf(SubSeq(folder, Len(PairPrefix) + 1, Len(folder)))

FoldersWritten(p) == { proc[p].writes[i].folder : i \in DOMAIN proc[p].writes }

\* C2: a run of process_image_pair on an output directory that already holds pair_N
\* slots (no other run in progress when it starts) writes to no slot that existed when
\* it started, and only to slots numbered above the maximum of those.
C2_RerunOnlyAddsSlots ==
    \A p \in DOMAIN proc :
        (IsTiler(p) /\ proc[p].alone) =>
            \A i \in DOMAIN proc[p].writes :
                LET folder == proc[p].writes[i].folder IN
                /\ folder \notin proc[p].existing
                /\ \A d \in proc[p].existing : SlotNumber(folder) > SlotNumber(d)

\* C3: two invocations of crop_image_pair on one output directory are never assigned
\* the same number, and no pair_N slot is written by both.
C3_NoSharedSlot ==
    \A p, q \in DOMAIN proc :
        (p # q /\ IsSampler(p) /\ IsSampler(q)) =>
            /\ (proc[p].output_folder # <<>> /\ proc[q].output_folder # <<>>)
                  => proc[p].pair_number # proc[q].pair_number
            /\ FoldersWritten(p) \cap FoldersWritten(q) = {}

\* C7: on a W x H raster with crop size S process_image_pair visits exactly
\* floor(W/S) * floor(H/S) boxes, in row-major order, each S x S with left and top
\* multiples of S, inside the raster, no two overlapping; remainder strips are not visited.
C7_TilesAreTheGrid ==
    \A p \in DOMAIN proc :
        (IsTiler(p) /\ proc[p].opened) =>
            LET W == before_img.width
                H == before_img.height
                S == crop_size
                nx == W \div S
                ny == H \div S
                boxes == proc[p].boxes
            IN  /\ Len(boxes) <= nx * ny
                /\ Returned(p) => Len(boxes) = nx * ny
                /\ \A i \in DOMAIN boxes :
                      /\ boxes[i] = << ((i - 1) % nx) * S, ((i - 1) \div nx) * S,
                                       ((i - 1) % nx) * S + S, ((i - 1) \div nx) * S + S >>
                      /\ boxes[i][3] <= W
                      /\ boxes[i][4] <= H
                /\ \A i, j \in DOMAIN boxes :
                      i < j => \/ boxes[i][3] <= boxes[j][1]
                               \/ boxes[j][3] <= boxes[i][1]
                               \/ boxes[i][4] <= boxes[j][2]
                               \/ boxes[j][4] <= boxes[i][2]

\* a run over a 3 x 2 raster with crop size 1 has returned after six boxes
C7_Witness ==
    \E p \in DOMAIN proc :
        /\ IsTiler(p) /\ proc[p].opened /\ Returned(p)
        /\ before_img.width = 3 /\ before_img.height = 2 /\ crop_size = 1
        /\ Len(proc[p].boxes) = 6

\* both rasters pass the script's filter at the box
ValidOnBoth(bbox, threshold) ==
    is_valid_crop(before_img, bbox, threshold) /\ is_valid_crop(after_img, bbox, threshold)

C9_Safe ==
    \A p \in DOMAIN proc :
        IsSampler(p) =>
            LET r == proc[p]
                n == Len(r.boxes)
            IN  /\ n = r.attempts
                /\ n <= MaxAttempts
                /\ \A i \in 1..(n - 1) : ~ValidOnBoth(r.boxes[i], SamplerThreshold)
                /\ (r.pc = "attempt" /\ n > 0) => ~ValidOnBoth(r.boxes[n], SamplerThreshold)
                /\ (Returned(p) /\ r.ret.none) =>
                      /\ r.writes = <<>>
                      /\ r.opened => /\ n = MaxAttempts
                                     /\ ~ValidOnBoth(r.boxes[n], SamplerThreshold)
                /\ (Returned(p) /\ ~r.ret.none) =>
                      /\ ValidOnBoth(r.boxes[n], SamplerThreshold)
                      /\ r.ret.folder = PairName(r.pair_number)
                      /\ Len(r.writes) = 2
                      /\ r.writes[1].file = "before" /\ r.writes[2].file = "after"
                      /\ \A i \in 1..2 : /\ r.writes[i].folder = r.ret.folder
                                         /\ r.writes[i].bbox = r.boxes[n]

\* C9: crop_image_pair evaluates at most max_attempts boxes and always returns: at the
\* first box valid on both rasters it writes one slot for that box and returns its
\* folder; when every box is rejected it writes nothing and returns None.
C9_BoundedAttempts ==
    /\ []C9_Safe
    /\ (proc[1].pc = "open") ~> Returned(1)

\* the first box was rejected, the second accepted and its slot returned
C9_Witness ==
    \E p \in DOMAIN proc :
        /\ IsSampler(p) /\ Returned(p) /\ ~proc[p].ret.none
        /\ Len(proc[p].boxes) = 2
        /\ Len(proc[p].writes) = 2

ThresholdOf(p) == IF IsSampler(p) THEN SamplerThreshold ELSE TilerThreshold

\* every file an invocation writes is the crop of its raster at a box that passed
\* is_valid_crop on both rasters, before and after are written as a pair at one box,
\* and a box for which either raster fails is never written
WritesFollowValidity ==
    \A p \in DOMAIN proc :
        LET r == proc[p] IN
        /\ \A i \in DOMAIN r.writes :
              LET w == r.writes[i] IN
              /\ is_valid_crop(before_img, w.bbox, ThresholdOf(p))
              /\ is_valid_crop(after_img, w.bbox, ThresholdOf(p))
              /\ w.data = Crop(IF w.file = "before" THEN before_img ELSE after_img, w.bbox)
              /\ w.file = (IF i % 2 = 1 THEN "before" ELSE "after")
              /\ i % 2 = 0 => /\ r.writes[i - 1].folder = w.folder
                              /\ r.writes[i - 1].bbox = w.bbox
        /\ \A i \in DOMAIN r.boxes :
              ~ValidOnBoth(r.boxes[i], ThresholdOf(p))
                  => \A j \in DOMAIN r.writes : r.writes[j].bbox # r.boxes[i]

\* the boxes either script can crop at
CropBoxes ==
    draws \cup { <<left, top, left + crop_size, top + crop_size>> :
                    left \in 0..before_img.width, top \in 0..before_img.height }

\* C10: every pair_N slot written by crop_image_pair or process_image_pair holds, once
\* its writers have returned, a before crop and an after crop taken at one identical
\* box, and is written only after is_valid_crop was true for that box on the before and
\* on the after raster; a box for which either raster fails never produces a slot.
C10_SlotsAreValidPairs ==
    /\ WritesFollowValidity
    /\ (\A p \in DOMAIN proc : ~InProgress(p)) =>
          \A d \in DOMAIN output_base :
              \E bbox \in CropBoxes :
                  /\ \E p \in DOMAIN proc : ValidOnBoth(bbox, ThresholdOf(p))
                  /\ output_base[d] = [before |-> Crop(before_img, bbox),
                                       after |-> Crop(after_img, bbox)]

(***************************************************************************)
(* process_disasters.py: main and the worker pool                          *)
(*                                                                         *)
(* A unit is (disaster, location); the crop size every unit carries is the *)
(* same args.size and is left out.  Pool.map cuts the task list into       *)
(* chunks, a worker runs the units of a chunk one after another, and map   *)
(* returns when every chunk has delivered its result or its exception.     *)
(***************************************************************************)
MaxDisasters == 3
MaxLocations == 2
MaxWorkers == 2

\* leafmap.maxar_collections()
available_disasters == <<"d1", "d2">>

DisasterNames == {"d1", "d2", "dx"}
LocationNames == <<"l1", "l2", "l3">>

RECURSIVE SeqsUpTo(_, _)
SeqsUpTo(S, n) ==
    IF n = 0 THEN {<<>>}
    ELSE LET shorter == SeqsUpTo(S, n - 1) IN
         shorter \cup { Append(s, e) : s \in shorter, e \in S }

InSeq(e, s) == \E i \in DOMAIN s : s[i] = e

\* lines 140-146
disasters_to_process ==
    IF disasters # <<>>
    THEN SelectSeq(disasters, LAMBDA d : InSeq(d, available_disasters))
    ELSE available_disasters

\* lines 86-124: the units of one disaster, [] when it has no locations
process_disaster_sequential(disaster) ==
    [i \in DOMAIN locations[disaster] |-> <<disaster, locations[disaster][i]>>]

\* lines 155-158
RECURSIVE ExtendAll(_)
ExtendAll(ds) ==
    IF ds = <<>> THEN <<>>
    ELSE process_disaster_sequential(Head(ds)) \o ExtendAll(Tail(ds))

\* Pool.map's chunksize for n tasks on a pool of the given size
ChunkSize(n, processes) ==
    LET chunksize == n \div (processes * 4)
        extra == n % (processes * 4)
    IN  IF extra # 0 THEN chunksize + 1 ELSE chunksize

NumChunks(n, processes) ==
    LET size == ChunkSize(n, processes) IN (n + size - 1) \div size

\* the indices of the tasks of chunk c
ChunkFirst(c) == (c - 1) * ChunkSize(Len(all_location_tasks), max_workers) + 1
ChunkLast(c) ==
    Min(c * ChunkSize(Len(all_location_tasks), max_workers), Len(all_location_tasks))

Idle == [chunk |-> 0, unit |-> 0, running |-> FALSE]

InitOrch ==
    /\ disasters \in SeqsUpTo(DisasterNames, MaxDisasters)
    /\ \E n1, n2 \in 0..MaxLocations :
          locations = [d \in DisasterNames |->
                          IF d = "d1" THEN SubSeq(LocationNames, 1, n1)
                          ELSE IF d = "d2" THEN SubSeq(LocationNames, 1, n2)
                          ELSE <<>>]
    /\ max_workers \in 1..MaxWorkers
    /\ all_location_tasks = <<>>
    /\ pool = [unit |-> <<>>, failed |-> <<>>, chunk |-> <<>>, worker |-> <<>>]
    /\ results = <<>>
    /\ main = [pc |-> "start", successful_locations |-> 0, disaster_results |-> <<>>]
    /\ NotOrchIdle

\* lines 139-169: the task list, then the pool and the call of pool.map
BuildTasks ==
    /\ main.pc = "start"
    /\ LET tasks == ExtendAll(disasters_to_process) IN
       IF disasters_to_process = <<>> \/ tasks = <<>>
       THEN /\ main' = [main EXCEPT !.pc = "returned"]
            /\ UNCHANGED <<all_location_tasks, pool>>
       ELSE /\ all_location_tasks' = tasks
            /\ pool' = [unit |-> [i \in DOMAIN tasks |-> "queued"],
                        failed |-> [i \in DOMAIN tasks |-> FALSE],
                        chunk |-> [c \in 1..NumChunks(Len(tasks), max_workers) |-> "queued"],
                        worker |-> [w \in 1..max_workers |-> Idle]]
            /\ main' = [main EXCEPT !.pc = "map"]
    /\ UNCHANGED <<disasters, locations, max_workers, results, NotOrch>>

\* an idle worker takes the next chunk off the task queue
TakeChunk(w) ==
    /\ main.pc = "map"
    /\ pool.worker[w].chunk = 0
    /\ \E c \in DOMAIN pool.chunk :
          /\ pool.chunk[c] = "queued"
          /\ \A b \in 1..(c - 1) : pool.chunk[b] # "queued"
          /\ pool' = [pool EXCEPT !.chunk[c] = "taken",
                                  !.worker[w] = [chunk |-> c, unit |-> ChunkFirst(c),
                                                 running |-> FALSE]]
    /\ UNCHANGED <<disasters, locations, max_workers, all_location_tasks, results, main,
                   NotOrch>>

\* lines 38-46: subprocess.run starts get_all_valid_tiles.py, or raises an OSError
\* (FileNotFoundError for a missing python executable) that line 48 does not catch:
\* the exception leaves run_get_all_valid_tiles and ends the worker's chunk
StartUnit(w) ==
    /\ main.pc = "map"
    /\ pool.worker[w].chunk # 0 /\ ~pool.worker[w].running
    /\ LET wk == pool.worker[w] IN
       \E started \in BOOLEAN :
          pool' = IF started
                  THEN [pool EXCEPT !.unit[wk.unit] = "running",
                                    !.worker[w].running = TRUE]
                  ELSE [pool EXCEPT !.unit[wk.unit] = "cannot_start",
                                    !.chunk[wk.chunk] = "raised",
                                    !.worker[w] = Idle]
    /\ UNCHANGED <<disasters, locations, max_workers, all_location_tasks, results, main,
                   NotOrch>>

\* what can happen in one run of get_all_valid_tiles.py: crops saved, no valid crop,
\* no image pair (line 116), a raster that cannot be opened or an I/O error while
\* saving (both caught at line 101), an exception that leaves main (e.g. os.listdir
\* of a missing location folder in get_image_pairs)
TilerEvents == {"cropped", "no_crops", "no_pair", "open_failed", "save_failed", "uncaught"}

\* get_all_valid_tiles.py lines 101-134: the exit status of the script;
\* process_image_pair's except branch turns every failure into the return value 0, and
\* main returns normally whatever process_image_pair returned and never calls sys.exit
TilerExitStatus(event) == IF event = "uncaught" THEN 1 ELSE 0

\* the unit did not do its work
UnitFailed(event) == event \in {"open_failed", "save_failed", "uncaught"}

\* lines 46-50: the subprocess exits; check=True turns a non-zero exit status into
\* CalledProcessError, which line 48 catches
FinishUnit(w) ==
    /\ main.pc = "map"
    /\ pool.worker[w].running
    /\ LET wk == pool.worker[w] IN
       \E event \in TilerEvents :
          LET returncode == TilerExitStatus(event) IN
          pool' = [pool EXCEPT
                     !.unit[wk.unit] = IF returncode = 0 THEN "exit_zero" ELSE "exit_nonzero",
                     !.failed[wk.unit] = UnitFailed(event),
                     !.chunk[wk.chunk] = IF wk.unit = ChunkLast(wk.chunk) THEN "returned"
                                         ELSE @,
                     !.worker[w] = IF wk.unit = ChunkLast(wk.chunk) THEN Idle
                                   ELSE [@ EXCEPT !.unit = @ + 1, !.running = FALSE]]
    /\ UNCHANGED <<disasters, locations, max_workers, all_location_tasks, results, main,
                   NotOrch>>

\* the tuple run_get_all_valid_tiles returned for task i
ResultOf(i) ==
    <<all_location_tasks[i][1], all_location_tasks[i][2], pool.unit[i] = "exit_zero">>

RECURSIVE CountSuccess(_)
CountSuccess(rs) ==
    IF rs = <<>> THEN 0
    ELSE (IF Head(rs)[3] THEN 1 ELSE 0) + CountSuccess(Tail(rs))

\* lines 184-190
DisasterResults(rs) ==
    [d \in { rs[i][1] : i \in DOMAIN rs } |->
        [total |-> Cardinality({ i \in DOMAIN rs : rs[i][1] = d }),
         success |-> Cardinality({ i \in DOMAIN rs : rs[i][1] = d /\ rs[i][3] })]]

\* lines 169-193: pool.map returns the results in task order once every chunk is in, or
\* raises the exception of a chunk; the exception leaves main before the summary
MapReturns ==
    /\ main.pc = "map"
    /\ \A c \in DOMAIN pool.chunk : pool.chunk[c] \in {"returned", "raised"}
    /\ IF \E c \in DOMAIN pool.chunk : pool.chunk[c] = "raised"
       THEN /\ main' = [main EXCEPT !.pc = "raised"]
            /\ UNCHANGED results
       ELSE LET rs == [i \in DOMAIN all_location_tasks |-> ResultOf(i)] IN
            /\ results' = rs
            /\ main' = [pc |-> "summary", successful_locations |-> CountSuccess(rs),
                        disaster_results |-> DisasterResults(rs)]
    /\ UNCHANGED <<disasters, locations, max_workers, all_location_tasks, pool, NotOrch>>

NextOrch ==
    \/ BuildTasks
    \/ \E w \in DOMAIN pool.worker : TakeChunk(w)
    \/ \E w \in DOMAIN pool.worker : StartUnit(w)
    \/ \E w \in DOMAIN pool.worker : FinishUnit(w)
    \/ MapReturns

SpecOrch == InitOrch /\ [][NextOrch]_vars

\* main is over: it printed the summary, or an exception left it
MainOver == main.pc \in {"summary", "raised"}

\* C5: however a unit ends (exit zero, exit non-zero, subprocess cannot be started), the
\* pool runs every submitted unit to completion, main obtains exactly one result per
\* submitted unit, and the final summary is produced.
C5_EveryUnitGetsAResult ==
    MainOver =>
        /\ \A i \in DOMAIN pool.unit :
              pool.unit[i] \in {"exit_zero", "exit_nonzero", "cannot_start"}
        /\ Len(results) = Len(all_location_tasks)
        /\ \A i \in DOMAIN results :
              /\ results[i][1] = all_location_tasks[i][1]
              /\ results[i][2] = all_location_tasks[i][2]
        /\ main.pc = "summary"

\* the same, for runs in which every subprocess could be started
C5_WhenEveryUnitStarts ==
    (MainOver /\ \A i \in DOMAIN pool.unit : pool.unit[i] # "cannot_start") =>
        /\ \A i \in DOMAIN pool.unit : pool.unit[i] \in {"exit_zero", "exit_nonzero"}
        /\ Len(results) = Len(all_location_tasks)
        /\ main.pc = "summary"
        /\ main.successful_locations =
              Cardinality({ i \in DOMAIN pool.unit : pool.unit[i] = "exit_zero" })

(***************************************************************************)
(* C11: pairs whose rasters differ in size                                 *)
(***************************************************************************)
\* a location whose two captures have sizes of their own; both scripts read
\* width and height from before_img only
InitMismatch ==
    /\ \E width \in 1..MaxWidth, height \in 1..MaxHeight :
          \E dark \in 0..Min(width, MaxDark) : before_img = Raster(width, height, dark)
    /\ \E width \in 1..MaxWidth, height \in 1..MaxHeight :
          \E dark \in 0..Min(width, MaxDark) : after_img = Raster(width, height, dark)
    /\ crop_size \in 1..MaxCropSize
    /\ draws = SamplerBoxes(before_img.width, before_img.height, crop_size)
    /\ output_base = <<>>
    /\ proc = [p \in Procs |-> NotCalled(IF p = 1 THEN "crop_image_pair"
                                          ELSE "process_image_pair")]
    /\ NotCropIdle

SpecMismatch == InitMismatch /\ [][NextCrop]_vars

InsideRaster(bbox, image) ==
    /\ 0 <= bbox[1] /\ 0 <= bbox[2]
    /\ bbox[3] <= image.width /\ bbox[4] <= image.height

\* some crop_size box inside the before raster is not inside the after raster
DimensionMismatch ==
    \E left \in 0..before_img.width, top \in 0..before_img.height :
        LET bbox == <<left, top, left + crop_size, top + crop_size>> IN
        InsideRaster(bbox, before_img) /\ ~InsideRaster(bbox, after_img)

\* C11: when some box inside the before raster is not inside the after raster, the
\* mismatch is detected before any crop is read and the unit is aborted: neither
\* crop_image_pair nor process_image_pair evaluates a box or writes a slot for the pair.
C11_MismatchAborts ==
    DimensionMismatch =>
        /\ output_base = <<>>
        /\ \A p \in DOMAIN proc : proc[p].boxes = <<>> /\ proc[p].writes = <<>>

\* the weaker reading: crops are read, but nothing is written for such a pair
C11_MismatchWritesNothing ==
    DimensionMismatch => \A p \in DOMAIN proc : proc[p].writes = <<>>

\* weaker still: no slot is written at a box that is outside the after raster
C11_NoWriteOutsideAfter ==
    \A p \in DOMAIN proc : \A i \in DOMAIN proc[p].writes :
        InsideRaster(proc[p].writes[i].bbox, after_img)

\* C12: a unit that fails inside get_all_valid_tiles.py (a raster cannot be opened, an
\* I/O error while saving a crop) is recorded by the orchestrator with success False
\* and is not counted among the successful locations of the summary.
C12_FailureReportedAsFalse ==
    main.pc = "summary" =>
        /\ \A i \in DOMAIN results : pool.failed[i] => ~results[i][3]
        /\ main.successful_locations
              <= Cardinality({ i \in DOMAIN pool.failed : ~pool.failed[i] })

\* the part that holds: a unit whose subprocess exits non-zero is recorded as False
C12_NonZeroReportedAsFalse ==
    main.pc = "summary" =>
        \A i \in DOMAIN results : pool.unit[i] = "exit_nonzero" => ~results[i][3]

\* the units two workers are running at the same time
RunningTogether(w, v) ==
    /\ w # v
    /\ pool.worker[w].running /\ pool.worker[v].running

\* C13: for every list of disasters, also one naming a disaster more than once, no two
\* units handed to the pool have the same (disaster, location), so no two units running
\* at the same time write into the same cropped_images/<disaster>/<location>.
C13_UnitsAreDistinct ==
    /\ \A i, j \in DOMAIN all_location_tasks :
          i # j => all_location_tasks[i] # all_location_tasks[j]
    /\ \A w, v \in DOMAIN pool.worker :
          RunningTogether(w, v) =>
              all_location_tasks[pool.worker[w].unit] # all_location_tasks[pool.worker[v].unit]

\* the same, for lists that name no disaster twice
C13_WhenNoDisasterRepeats ==
    (\A i, j \in DOMAIN disasters : i # j => disasters[i] # disasters[j])
        => C13_UnitsAreDistinct

\* the boxes of a run of process_image_pair that passed on both rasters, in the order
\* in which they were evaluated
Accepted(p) ==
    SelectSeq(proc[p].boxes, LAMBDA bbox : ValidOnBoth(bbox, TilerThreshold))

\* C14: in one run of process_image_pair that meets no exception, the i-th accepted box
\* (row-major) is written to pair_(i-1), before and after, so that the k accepted boxes
\* fill pair_0 .. pair_(k-1) with no number skipped or used twice, and the run returns k.
C14_SlotsNumberedInOrder ==
    \A p \in DOMAIN proc :
        (IsTiler(p) /\ proc[p].opened) =>
            LET acc == Accepted(p)
                writes == proc[p].writes
            IN  /\ Len(writes) = 2 * Len(acc)
                /\ \A i \in DOMAIN acc :
                      /\ writes[2 * i - 1] =
                            [folder |-> PairName(i - 1), file |-> "before", bbox |-> acc[i],
                             data |-> Crop(before_img, acc[i])]
                      /\ writes[2 * i] =
                            [folder |-> PairName(i - 1), file |-> "after", bbox |-> acc[i],
                             data |-> Crop(after_img, acc[i])]
                /\ Returned(p) =>
                      /\ proc[p].ret.count = Len(acc)
                      /\ Cardinality(FoldersWritten(p)) = proc[p].ret.count

\* a run has returned 2 after rejecting its first box: the second and third box of the
\* row are in pair_0 and pair_1
C14_Witness ==
    \E p \in DOMAIN proc :
        /\ IsTiler(p) /\ proc[p].opened /\ Returned(p)
        /\ proc[p].ret.count = 2
        /\ Len(proc[p].boxes) = 3
        /\ ~ValidOnBoth(proc[p].boxes[1], TilerThreshold)
        /\ FoldersWritten(p) = {PairName(0), PairName(1)}

====
